---- MODULE Spec2Model ----
(***************************************************************************)
(* The Diagnostic page of neuromath-navigator (src/unnamed/part_000, lines *)
(* 268-814) as a state machine: the React state of one mounted Diagnostic  *)
(* component, the rows of the five tables it writes, and the async         *)
(* continuations of its handlers that are waiting for the store or for an  *)
(* edge function.                                                          *)
(*                                                                         *)
(* Strings the code inspects (trim, toLowerCase) are sequences of one-     *)
(* character strings.  The two text fields (student name, answer) are the  *)
(* inputs of the submit events: a submit step is "type v, then submit".    *)
(***************************************************************************)
EXTENDS Integers, Sequences, FiniteSets, Bags, TLC

(* ------------------------------------------------------------------ *)
(* Program constants                                                  *)
(* ------------------------------------------------------------------ *)

MAIN_TEST_LENGTH == 10

CONFIRMATORY_LENGTH == 5

\* age < 5 is rejected (handleAgeSubmit) and students.age has CHECK (age >= 5)
MinAge == 5

\* "2+ errors in same construct"
BlockerThreshold == 2

\* body of the generate-question request: count: 10
BatchCount == 10

(* ------------------------------------------------------------------ *)
(* Bounds of the model                                                *)
(* ------------------------------------------------------------------ *)

\* incorrect answers of one student in a run without adverse events
MaxWrong == 6

\* adverse events of one run: a store write rejected, a provider call that
\* fails or answers short, a missing auth session, a handler called while
\* an earlier call of it is still at an await
MaxAdverse == 1

\* incorrect answers of one student in a run with adverse events: as many
\* as promote one construct
MaxAdverseWrong == BlockerThreshold

(* ------------------------------------------------------------------ *)
(* Strings                                                            *)
(* ------------------------------------------------------------------ *)

IsSpace(ch) == ch \in {" ", "\t"}

RECURSIVE TrimStart(_)
TrimStart(s) ==
  IF s = <<>> THEN <<>>
  ELSE IF IsSpace(Head(s)) THEN TrimStart(Tail(s))
  ELSE s

RECURSIVE TrimEnd(_)
TrimEnd(s) ==
  IF s = <<>> THEN <<>>
  ELSE IF IsSpace(s[Len(s)]) THEN TrimEnd(SubSeq(s, 1, Len(s) - 1))
  ELSE s

\* String.prototype.trim
Trim(s) == TrimEnd(TrimStart(s))

LowerChar(ch) ==
  CASE ch = "A" -> "a"
    [] ch = "B" -> "b"
    [] OTHER -> ch

\* String.prototype.toLowerCase
ToLowerCase(s) == [i \in 1..Len(s) |-> LowerChar(s[i])]

\* IsBlank without the trim: only the empty string is refused
IsBlankUntrimmed(s) == s = <<>>

\* !s.trim() : the empty string is the only falsy string
IsBlank(s) == Trim(s) = <<>>

(* ------------------------------------------------------------------ *)
(* Blocker detection and severity (pure parts of detectBlockers and   *)
(* generateRoadmap)                                                   *)
(* ------------------------------------------------------------------ *)

\* constructErrors[c] = (constructErrors[c] || 0) + 1 on an object whose keys
\* are construct names: a new key is added after the existing ones, an
\* existing key keeps its place (property order of non-index string keys).
BumpEntry(entries, c) ==
  IF \E i \in 1..Len(entries) : entries[i].key = c
  THEN [i \in 1..Len(entries) |->
          IF entries[i].key = c
          THEN [key |-> c, count |-> entries[i].count + 1]
          ELSE entries[i]]
  ELSE Append(entries, [key |-> c, count |-> 1])

\* allResponses.filter(r => !r.isCorrect).forEach(...): Object.entries of
\* the resulting constructErrors
RECURSIVE ConstructErrors(_)
ConstructErrors(rs) ==
  IF rs = <<>> THEN <<>>
  ELSE LET prev == ConstructErrors(SubSeq(rs, 1, Len(rs) - 1))
           r    == rs[Len(rs)]
       IN IF r.isCorrect THEN prev ELSE BumpEntry(prev, r.construct)

\* IsPromoted with the threshold off by one: a single error promotes
IsPromotedAtOne(count) == count >= BlockerThreshold - 1

\* IsPromoted with a strict comparison: two errors do not promote
IsPromotedAbove(count) == count > BlockerThreshold

\* .filter(([_, count]) => count >= 2)
IsPromoted(count) == count >= BlockerThreshold

\* Array.prototype.filter / map over the entries, order kept
RECURSIVE PromoteEntries(_)
PromoteEntries(entries) ==
  IF entries = <<>> THEN <<>>
  ELSE LET e == Head(entries)
           rest == PromoteEntries(Tail(entries))
       IN IF IsPromoted(e.count)
          THEN <<[blocker_name |-> e.key, error_count |-> e.count]>> \o rest
          ELSE rest

\* DetectedBlockers that decides correctness from the raw answer texts
\* instead of isCorrect
DetectedBlockersByAnswer(rs) ==
  PromoteEntries(ConstructErrors(
    [i \in 1..Len(rs) |->
       [rs[i] EXCEPT !.isCorrect = (rs[i].userAnswer = rs[i].correctAnswer)]]))

\* DetectedBlockers without the filter on isCorrect: every response counts
DetectedBlockersOfAll(rs) ==
  PromoteEntries(ConstructErrors(
    [i \in 1..Len(rs) |-> [rs[i] EXCEPT !.isCorrect = FALSE]]))

\* detectedBlockers of detectBlockers(allResponses)
DetectedBlockers(rs) == PromoteEntries(ConstructErrors(rs))

\* allResponses.filter(r => !r.isCorrect).length
IncorrectCount(rs) == Cardinality({i \in 1..Len(rs) : ~rs[i].isCorrect})

\* RateAbove with a non-strict comparison
RateAtLeast(incorrect, total, tenths) ==
  total > 0 /\ incorrect * 10 >= tenths * total

\* errorRate > tenths/10 for errorRate = incorrect / total in IEEE doubles.
\* For the totals of a session (at most 17) the quotient of two integers
\* and the literals 0.6, 0.4, 0.2 round to the same double exactly when the
\* fractions are equal, so the comparison is the comparison of the
\* fractions; 0/0 is NaN, and NaN > x is false.
RateAbove(incorrect, total, tenths) ==
  total > 0 /\ incorrect * 10 > tenths * total

\* Severity with blockers.length === 3 in place of >= 3
SeverityExactlyThree(blockerCount, incorrect, total) ==
  IF blockerCount = 3 \/ RateAbove(incorrect, total, 6) THEN "severe"
  ELSE IF blockerCount >= 2 \/ RateAbove(incorrect, total, 4) THEN "moderate"
  ELSE IF blockerCount >= 1 \/ RateAbove(incorrect, total, 2) THEN "mild"
  ELSE "none"

\* Severity from the number of blockers alone
SeverityByBlockersOnly(blockerCount, incorrect, total) ==
  IF blockerCount >= 3 THEN "severe"
  ELSE IF blockerCount >= 2 THEN "moderate"
  ELSE IF blockerCount >= 1 THEN "mild"
  ELSE "none"

\* the if / else-if chain that sets severity
Severity(blockerCount, incorrect, total) ==
  IF blockerCount >= 3 \/ RateAbove(incorrect, total, 6) THEN "severe"
  ELSE IF blockerCount >= 2 \/ RateAbove(incorrect, total, 4) THEN "moderate"
  ELSE IF blockerCount >= 1 \/ RateAbove(incorrect, total, 2) THEN "mild"
  ELSE "none"

\* isCorrect of handleAnswerSubmit
IsCorrectAnswer(userAnswer, correctAnswer) ==
  ToLowerCase(Trim(userAnswer)) = ToLowerCase(correctAnswer)

(* ------------------------------------------------------------------ *)
(* Inputs: what the user types and what the collaborators answer      *)
(* ------------------------------------------------------------------ *)

Null == [kind |-> "null", v |-> 0]

NaN == [kind |-> "NaN", v |-> 0]

Num(n) == [kind |-> "number", v |-> n]

\* parseInt(e.target.value) of the age field
AgeInputs == {NaN, Num(0), Num(4), Num(5)}

NameInputs == {<<>>, <<" ">>, <<"A", "b">>}

CorrectTyped == <<" ", "A">>

WrongTyped == <<"b">>

AnswerInputs == {<<>>, <<" ", "\t">>, CorrectTyped, WrongTyped}

\* the constructs the generate-question prompt lists
MainConstructs ==
  << "Number Sense", "Place Value", "Number Sense", "Place Value",
     "Basic Arithmetic", "Place Value", "Pattern Recognition",
     "Spatial Reasoning", "Working Memory", "Number Sense" >>

Question(text, c) ==
  [questionText |-> text, correctAnswer |-> <<"a">>, construct |-> c,
   difficultyLevel |-> 1]

\* a complete reply to {age, errorHistory: [], count: 10}
MainBatch == [i \in 1..BatchCount |-> Question(i, MainConstructs[i])]

\* a complete reply to {age, blockerName}
ConfirmatoryBatch(blockerName) ==
  [i \in 1..CONFIRMATORY_LENGTH |-> Question(100 + i, blockerName)]

\* roadmaps the provider may write: its overallSeverity is its own
RoadmapReplies == {[overallSeverity |-> "none"], [overallSeverity |-> "severe"]}

NoId == 0

TeacherId == 1

(* ------------------------------------------------------------------ *)
(* State                                                              *)
(* ------------------------------------------------------------------ *)

VARIABLES
  \* useState of Diagnostic
  stage, age, studentId, testId, currentQuestion, questions, responses,
  loading, blockers, roadmap,
  \* "diagnostic" while the component is mounted, "auth" after navigate("/auth")
  route,
  \* rows of the tables, in insertion order; a row's id is its position
  students, diagnostic_tests, test_responses, blockers_detected,
  remediation_roadmaps,
  \* handleStudentInfoSubmit calls that are at an await (a bag: two calls
  \* may be at the same await with the same closure)
  enrolls,
  \* handleAnswerSubmit calls that are at an await of their stage completion
  completions,
  \* number of adverse events so far
  adverse

ui == <<stage, age, studentId, testId, currentQuestion, questions, responses,
        loading, blockers, roadmap, route>>

db == <<students, diagnostic_tests, test_responses, blockers_detected,
        remediation_roadmaps>>

vars == <<ui, db, enrolls, completions, adverse>>

Mounted == route = "diagnostic"

\* a state setter called by a continuation: React drops it after unmount
SetState(old, new) == IF Mounted THEN new ELSE old

\* an adverse event may happen now
CanFail == adverse < MaxAdverse /\ IncorrectCount(responses) <= MaxAdverseWrong

Init ==
  /\ stage = "age"
  /\ age = Null
  /\ studentId = NoId
  /\ testId = NoId
  /\ currentQuestion = 0
  /\ questions = <<>>
  /\ responses = <<>>
  /\ loading = FALSE
  /\ blockers = <<>>
  /\ roadmap = <<>>
  /\ route = "diagnostic"
  /\ students = <<>>
  /\ diagnostic_tests = <<>>
  /\ test_responses = <<>>
  /\ blockers_detected = <<>>
  /\ remediation_roadmaps = <<>>
  /\ enrolls = EmptyBag
  /\ completions = {}
  /\ adverse = 0

(* ------------------------------------------------------------------ *)
(* Stage age                                                          *)
(* ------------------------------------------------------------------ *)

\* onChange of the age field: setAge(parseInt(e.target.value))
setAge(v) ==
  /\ Mounted /\ stage = "age"
  /\ age' = v
  /\ UNCHANGED <<stage, studentId, testId, currentQuestion, questions,
                 responses, loading, blockers, roadmap, route>>
  /\ UNCHANGED <<db, enrolls, completions, adverse>>

\* AgeRejected without the !age test: only a number below 5 is refused
AgeRejectedBelowOnly(a) == a.kind = "number" /\ a.v < MinAge

\* !age || age < 5
AgeRejected(a) == a.kind # "number" \/ a.v = 0 \/ a.v < MinAge

\* the Continue button of the age card (disabled while loading)
handleAgeSubmit ==
  /\ Mounted /\ stage = "age" /\ ~loading
  /\ stage' = IF AgeRejected(age) THEN stage ELSE "student-info"
  /\ UNCHANGED <<age, studentId, testId, currentQuestion, questions,
                 responses, loading, blockers, roadmap, route>>
  /\ UNCHANGED <<db, enrolls, completions, adverse>>

(* ------------------------------------------------------------------ *)
(* Stage student-info: handleStudentInfoSubmit                        *)
(* ------------------------------------------------------------------ *)

\* Begin Assessment (disabled while loading) or Enter in the name field
\* (never disabled), with `name` in the field
handleStudentInfoSubmit(name, via) ==
  /\ Mounted /\ stage = "student-info"
  /\ via = "button" => ~loading
  /\ IF IsBlank(name)
     THEN \* toast "Missing Name"
          UNCHANGED <<loading, enrolls, adverse>>
     ELSE /\ enrolls # EmptyBag => CanFail
          /\ adverse' = IF enrolls # EmptyBag THEN adverse + 1 ELSE adverse
          /\ loading' = TRUE
          /\ enrolls' = enrolls (+) SetToBag(
               {[pc |-> "getSession", name |-> name, age |-> age,
                 sid |-> NoId, tid |-> NoId]})
  /\ UNCHANGED <<stage, age, studentId, testId, currentQuestion, questions,
                 responses, blockers, roadmap, route>>
  /\ UNCHANGED <<db, completions>>

\* EnrollAbort that lets the call go on to the question fetch
EnrollAbortGoesOn(e) ==
  /\ CanFail
  /\ adverse' = adverse + 1
  /\ UNCHANGED loading
  /\ enrolls' = (enrolls (-) SetToBag({e})) (+) SetToBag(
       {[e EXCEPT !.pc = "fetchQuestions"]})

\* catch (toast) and finally of handleStudentInfoSubmit, and its 429 return
EnrollAbort(e) ==
  /\ CanFail
  /\ adverse' = adverse + 1
  /\ loading' = SetState(loading, FALSE)
  /\ enrolls' = enrolls (-) SetToBag({e})

\* The three store round-trips of handleStudentInfoSubmit, taken as one
\* step: await supabase.auth.getSession(), the insert into students and the
\* insert into diagnostic_tests.  Between them the call only sets studentId
\* and testId; a round-trip that fails ends the call with what the earlier
\* ones wrote.
EnrollStore(e) ==
  /\ BagIn(e, enrolls) /\ e.pc = "getSession"
  /\ LET sid == Len(students) + 1
         tid == Len(diagnostic_tests) + 1
         studentRow == [id |-> sid, teacher_id |-> TeacherId, name |-> e.name,
                        age |-> e.age.v]
         testRow == [id |-> tid, student_id |-> sid, status |-> "in_progress",
                     age_at_test |-> e.age.v, overall_severity |-> "none"]
         \* students.age has CHECK (age >= 5)
         studentOk == e.age.kind = "number" /\ e.age.v >= MinAge
     IN
     \/ \* session, student and test: on to the fetch
        /\ studentOk
        /\ students' = Append(students, studentRow)
        /\ studentId' = SetState(studentId, sid)
        /\ diagnostic_tests' = Append(diagnostic_tests, testRow)
        /\ testId' = SetState(testId, tid)
        /\ enrolls' = (enrolls (-) SetToBag({e})) (+) SetToBag(
             {[e EXCEPT !.pc = "fetchQuestions", !.sid = sid, !.tid = tid]})
        /\ UNCHANGED <<loading, route, adverse>>
     \/ \* no session: toast, navigate("/auth"), return
        /\ EnrollAbort(e)
        /\ route' = "auth"
        /\ UNCHANGED <<students, studentId, diagnostic_tests, testId>>
     \/ \* studentError
        /\ EnrollAbort(e)
        /\ UNCHANGED <<students, studentId, diagnostic_tests, testId, route>>
     \/ \* testError
        /\ studentOk
        /\ EnrollAbort(e)
        /\ students' = Append(students, studentRow)
        /\ studentId' = SetState(studentId, sid)
        /\ UNCHANGED <<diagnostic_tests, testId, route>>
  /\ UNCHANGED <<stage, age, currentQuestion, questions, responses, blockers,
                 roadmap>>
  /\ UNCHANGED <<test_responses, blockers_detected, remediation_roadmaps,
                 completions>>

\* QuestionRequest that asks for a confirmatory-sized batch
QuestionRequestShort(e) ==
  [age |-> e.age, errorHistory |-> <<>>, count |-> CONFIRMATORY_LENGTH]

\* body of the generate-question request
QuestionRequest(e) == [age |-> e.age, errorHistory |-> <<>>, count |-> BatchCount]

\* what a 200 reply to `req` may hold: the batch asked for, or one question
\* object (the generate-question function of this repository writes one)
QuestionReplies(req) ==
  { [isArray |-> TRUE, body |-> MainBatch],
    [isArray |-> FALSE, body |-> <<MainBatch[1]>>] }

\* await fetch(.../generate-question) and what follows it
EnrollFetchQuestions(e) ==
  /\ BagIn(e, enrolls) /\ e.pc = "fetchQuestions"
  /\ \/ \E reply \in QuestionReplies(QuestionRequest(e)) :
          /\ reply.isArray \/ CanFail
          /\ adverse' = IF reply.isArray THEN adverse ELSE adverse + 1
          \* Array.isArray(questions) ? questions : [questions]
          /\ questions' = SetState(questions, reply.body)
          /\ stage' = SetState(stage, "main-test")
          /\ loading' = SetState(loading, FALSE)
          /\ enrolls' = enrolls (-) SetToBag({e})
     \/ \* status 429, or !response.ok
        /\ EnrollAbort(e)
        /\ UNCHANGED <<questions, stage>>
  /\ UNCHANGED <<age, studentId, testId, currentQuestion, responses, blockers,
                 roadmap, route>>
  /\ UNCHANGED <<db, completions>>

(* ------------------------------------------------------------------ *)
(* Stages main-test and confirmatory: handleAnswerSubmit              *)
(* ------------------------------------------------------------------ *)

\* the response object built from questions[currentQuestion]
MakeResponse(question, userAnswer, cursor) ==
  [questionNumber |-> cursor + 1,
   questionText |-> question.questionText,
   userAnswer |-> userAnswer,
   correctAnswer |-> question.correctAnswer,
   isCorrect |-> IsCorrectAnswer(userAnswer, question.correctAnswer),
   construct |-> question.construct,
   difficultyLevel |-> question.difficultyLevel]

\* the student of the model gives at most MaxWrong incorrect answers, and
\* at most MaxAdverseWrong in a run with adverse events
WithinWrongBudget(userAnswer, question) ==
  \/ IsCorrectAnswer(userAnswer, question.correctAnswer)
  \/ IncorrectCount(responses) <
       (IF adverse = 0 /\ completions = {} THEN MaxWrong ELSE MaxAdverseWrong)

\* Completion that hands an empty list on as allResponses
CompletionEmptyHistory(pc, newResponses) ==
  [pc |-> pc, tid |-> testId, age |-> age, qs |-> questions, blk |-> blockers,
   resp |-> <<>>, rm |-> <<>>]

\* a handleAnswerSubmit call at its first await: what its closure holds
Completion(pc, newResponses) ==
  [pc |-> pc, tid |-> testId, age |-> age, qs |-> questions, blk |-> blockers,
   resp |-> newResponses, rm |-> <<>>]

\* ConfirmatoryComplete after the first confirmatory answer
ConfirmatoryCompleteAfterOne(newResponses) ==
  stage = "confirmatory" /\ Len(newResponses) = MAIN_TEST_LENGTH + 1

\* stage === "confirmatory" &&
\*   newResponses.length === MAIN_TEST_LENGTH + CONFIRMATORY_LENGTH
ConfirmatoryComplete(newResponses) ==
  stage = "confirmatory"
    /\ Len(newResponses) = MAIN_TEST_LENGTH + CONFIRMATORY_LENGTH

\* AnswerFieldRendered without the stage test: the answer card in every stage
AnswerFieldRenderedAlways == TRUE

\* (stage === "main-test" || stage === "confirmatory") && the answer card
AnswerFieldRendered == stage \in {"main-test", "confirmatory"}

\* Submit Answer (disabled while loading) or Enter in the answer field
\* (never disabled), with `userAnswer` in the field
handleAnswerSubmit(userAnswer, via) ==
  /\ Mounted /\ AnswerFieldRendered
  /\ via = "button" => ~loading
  /\ IF IsBlank(userAnswer)
     THEN \* toast "Missing Answer"
          UNCHANGED <<responses, currentQuestion, completions, adverse>>
     ELSE IF currentQuestion + 1 > Len(questions)
     THEN \* question is undefined: question.correctAnswer throws
          UNCHANGED <<responses, currentQuestion, completions, adverse>>
     ELSE LET question == questions[currentQuestion + 1]
              newResponses ==
                Append(responses, MakeResponse(question, userAnswer, currentQuestion))
          IN /\ WithinWrongBudget(userAnswer, question)
             /\ completions # {} => CanFail
             /\ adverse' = IF completions # {} THEN adverse + 1 ELSE adverse
             /\ responses' = newResponses
             /\ IF stage = "main-test" /\ Len(newResponses) = MAIN_TEST_LENGTH
                THEN /\ completions' = completions \cup
                          {Completion("saveMain", newResponses)}
                     /\ UNCHANGED currentQuestion
                ELSE IF ConfirmatoryComplete(newResponses)
                THEN /\ completions' = completions \cup
                          {Completion("saveConfirmatory", newResponses)}
                     /\ UNCHANGED currentQuestion
                ELSE /\ currentQuestion' = currentQuestion + 1
                     /\ UNCHANGED completions
  /\ UNCHANGED <<stage, age, studentId, testId, questions, loading, blockers,
                 roadmap, route>>
  /\ UNCHANGED <<db, enrolls>>

\* responsesToSave.map(...) of saveResponses
ResponseRow(tid, r) ==
  [test_id |-> tid, question_number |-> r.questionNumber,
   question_text |-> r.questionText, user_answer |-> r.userAnswer,
   correct_answer |-> r.correctAnswer, is_correct |-> r.isCorrect,
   construct_tested |-> r.construct, difficulty_level |-> r.difficultyLevel]

\* newResponses.slice(0, MAIN_TEST_LENGTH) / newResponses.slice(MAIN_TEST_LENGTH)
ResponsesToSave(c) ==
  IF c.pc = "saveMain"
  THEN SubSeq(c.resp, 1, MAIN_TEST_LENGTH)
  ELSE SubSeq(c.resp, MAIN_TEST_LENGTH + 1, Len(c.resp))

\* the synchronous start of generateRoadmap: setLoading(true), fetch
StartRoadmap(c) ==
  /\ loading' = SetState(loading, TRUE)
  /\ completions' = (completions \ {c}) \cup {[c EXCEPT !.pc = "fetchRoadmap"]}
  /\ UNCHANGED blockers

\* the synchronous start of detectBlockers, up to its first await
StartDetectBlockers(c) ==
  LET detectedBlockers == DetectedBlockers(c.resp) IN
  IF Len(detectedBlockers) = 0
  THEN StartRoadmap(c)
  ELSE /\ blockers' = SetState(blockers, detectedBlockers)
       /\ IF c.tid # NoId
          THEN /\ completions' =
                    (completions \ {c}) \cup {[c EXCEPT !.pc = "insertBlockers"]}
               /\ UNCHANGED loading
          ELSE /\ completions' =
                    (completions \ {c}) \cup {[c EXCEPT !.pc = "fetchConfirmatory"]}
               /\ loading' = SetState(loading, TRUE)

\* AfterSave that runs the detector after either stage
AfterSaveDetectAlways(c) == StartDetectBlockers(c)

\* what handleAnswerSubmit calls after saveResponses: detectBlockers when
\* the main test is complete, generateRoadmap when the confirmatory test is
AfterSave(c) ==
  IF c.pc = "saveMain" THEN StartDetectBlockers(c) ELSE StartRoadmap(c)

\* await saveResponses(...), then the call that follows it
SaveResponses(c) ==
  /\ c \in completions /\ c.pc \in {"saveMain", "saveConfirmatory"}
  /\ \/ /\ c.tid # NoId
        /\ test_responses' = test_responses \o
             [i \in 1..Len(ResponsesToSave(c)) |->
                ResponseRow(c.tid, ResponsesToSave(c)[i])]
        /\ UNCHANGED adverse
     \/ \* if (!testId) return
        /\ c.tid = NoId
        /\ UNCHANGED <<test_responses, adverse>>
     \/ \* the insert is rejected: console.error
        /\ c.tid # NoId /\ CanFail
        /\ adverse' = adverse + 1
        /\ UNCHANGED test_responses
  /\ AfterSave(c)
  /\ UNCHANGED <<stage, age, studentId, testId, currentQuestion, questions,
                 responses, roadmap, route>>
  /\ UNCHANGED <<students, diagnostic_tests, blockers_detected,
                 remediation_roadmaps, enrolls>>

\* await supabase.from("blockers_detected").insert(...), then setLoading(true)
\* and the confirmatory fetch
InsertBlockers(c) ==
  /\ c \in completions /\ c.pc = "insertBlockers"
  /\ LET detectedBlockers == DetectedBlockers(c.resp) IN
     \/ /\ blockers_detected' = blockers_detected \o
             [i \in 1..Len(detectedBlockers) |->
                [test_id |-> c.tid,
                 blocker_name |-> detectedBlockers[i].blocker_name,
                 error_count |-> detectedBlockers[i].error_count,
                 is_confirmed |-> FALSE]]
        /\ UNCHANGED adverse
     \/ \* the insert is rejected: console.error
        /\ CanFail
        /\ adverse' = adverse + 1
        /\ UNCHANGED blockers_detected
  /\ loading' = SetState(loading, TRUE)
  /\ completions' = (completions \ {c}) \cup {[c EXCEPT !.pc = "fetchConfirmatory"]}
  /\ UNCHANGED <<stage, age, studentId, testId, currentQuestion, questions,
                 responses, blockers, roadmap, route>>
  /\ UNCHANGED <<students, diagnostic_tests, test_responses,
                 remediation_roadmaps, enrolls>>

\* CompletionAbort that leaves the loading flag as it is
CompletionAbortKeepsLoading(c) ==
  /\ CanFail
  /\ adverse' = adverse + 1
  /\ UNCHANGED loading
  /\ completions' = completions \ {c}

\* catch (toast) and finally of detectBlockers / generateRoadmap, and their
\* 429 returns
CompletionAbort(c) ==
  /\ CanFail
  /\ adverse' = adverse + 1
  /\ loading' = SetState(loading, FALSE)
  /\ completions' = completions \ {c}

\* ConfirmatoryRequest that names the blocker with the most errors
ConfirmatoryRequestMostErrors(c) ==
  LET detectedBlockers == DetectedBlockers(c.resp)
      most == CHOOSE i \in 1..Len(detectedBlockers) :
                \A j \in 1..Len(detectedBlockers) :
                  \/ detectedBlockers[j].error_count < detectedBlockers[i].error_count
                  \/ /\ detectedBlockers[j].error_count = detectedBlockers[i].error_count
                     /\ i <= j
  IN [age |-> c.age, blockerName |-> detectedBlockers[most].blocker_name]

\* body of the generate-confirmatory-test request
ConfirmatoryRequest(c) ==
  [age |-> c.age, blockerName |-> DetectedBlockers(c.resp)[1].blocker_name]

\* what a 200 reply to `req` may hold: the five questions asked for, or fewer
ConfirmatoryReplies(req) ==
  { ConfirmatoryBatch(req.blockerName),
    SubSeq(ConfirmatoryBatch(req.blockerName), 1, 1) }

\* await fetch(.../generate-confirmatory-test) and what follows it
FetchConfirmatory(c) ==
  /\ c \in completions /\ c.pc = "fetchConfirmatory"
  /\ \/ \E confirmatoryQuestions \in ConfirmatoryReplies(ConfirmatoryRequest(c)) :
          /\ Len(confirmatoryQuestions) = CONFIRMATORY_LENGTH \/ CanFail
          /\ adverse' = IF Len(confirmatoryQuestions) = CONFIRMATORY_LENGTH
                        THEN adverse ELSE adverse + 1
          /\ questions' = SetState(questions, c.qs \o confirmatoryQuestions)
          /\ currentQuestion' = SetState(currentQuestion, Len(c.resp))
          /\ stage' = SetState(stage, "confirmatory")
          /\ loading' = SetState(loading, FALSE)
          /\ completions' = completions \ {c}
     \/ \* status 429, or !response.ok
        /\ CompletionAbort(c)
        /\ UNCHANGED <<questions, currentQuestion, stage>>
  /\ UNCHANGED <<age, studentId, testId, responses, blockers, roadmap, route>>
  /\ UNCHANGED <<db, enrolls>>

(* ------------------------------------------------------------------ *)
(* generateRoadmap                                                    *)
(* ------------------------------------------------------------------ *)

\* body of the generate-roadmap request
RoadmapRequest(c) == [age |-> c.age, blockers |-> c.blk, responses |-> c.resp]

\* ComputedSeverity with the error rate of the last stage only
ComputedSeverityLastStage(c) ==
  LET last == IF Len(c.resp) > MAIN_TEST_LENGTH
              THEN SubSeq(c.resp, MAIN_TEST_LENGTH + 1, Len(c.resp))
              ELSE c.resp
  IN Severity(Len(c.blk), IncorrectCount(last), Len(last))

\* severity as generateRoadmap computes it from its closure
ComputedSeverity(c) ==
  Severity(Len(c.blk), IncorrectCount(c.resp), Len(c.resp))

\* setStage("roadmap"), toast, finally
FinishRoadmap(c) ==
  /\ stage' = SetState(stage, "roadmap")
  /\ loading' = SetState(loading, FALSE)
  /\ completions' = completions \ {c}

\* await fetch(.../generate-roadmap), setRoadmap(roadmapData)
FetchRoadmap(c) ==
  /\ c \in completions /\ c.pc = "fetchRoadmap"
  /\ \/ \E roadmapData \in RoadmapReplies :
          /\ roadmap' = SetState(roadmap, <<roadmapData>>)
          /\ IF c.tid # NoId
             THEN /\ completions' = (completions \ {c}) \cup
                       {[c EXCEPT !.pc = "insertRoadmap", !.rm = <<roadmapData>>]}
                  /\ UNCHANGED <<stage, loading>>
             ELSE FinishRoadmap(c)
          /\ UNCHANGED adverse
     \/ \* status 429, or !response.ok
        /\ CompletionAbort(c)
        /\ UNCHANGED <<roadmap, stage>>
  /\ UNCHANGED <<age, studentId, testId, currentQuestion, questions, responses,
                 blockers, route>>
  /\ UNCHANGED <<db, enrolls>>

\* await supabase.from("remediation_roadmaps").insert(...)
InsertRoadmap(c) ==
  /\ c \in completions /\ c.pc = "insertRoadmap"
  /\ \/ /\ remediation_roadmaps' = Append(remediation_roadmaps,
             [test_id |-> c.tid, roadmap_data |-> c.rm[1]])
        /\ completions' = (completions \ {c}) \cup {[c EXCEPT !.pc = "updateTest"]}
        /\ UNCHANGED <<loading, adverse>>
     \/ \* roadmapError
        /\ CompletionAbort(c)
        /\ UNCHANGED remediation_roadmaps
  /\ UNCHANGED <<stage, age, studentId, testId, currentQuestion, questions,
                 responses, blockers, roadmap, route>>
  /\ UNCHANGED <<students, diagnostic_tests, test_responses, blockers_detected,
                 enrolls>>

\* ConfirmsBlockers that skips the confirmation
ConfirmsBlockersNever(c) == FALSE

\* if (blockers.length > 0): the blocker records are confirmed
ConfirmsBlockers(c) == Len(c.blk) > 0

\* await supabase.from("diagnostic_tests").update({status, overall_severity})
\*   .eq("id", testId)
UpdateTest(c) ==
  /\ c \in completions /\ c.pc = "updateTest"
  /\ \/ /\ diagnostic_tests' =
             [i \in 1..Len(diagnostic_tests) |->
                IF diagnostic_tests[i].id = c.tid
                THEN [diagnostic_tests[i] EXCEPT
                        !.status = "completed",
                        !.overall_severity = ComputedSeverity(c)]
                ELSE diagnostic_tests[i]]
        /\ IF ConfirmsBlockers(c)
           THEN /\ completions' =
                     (completions \ {c}) \cup {[c EXCEPT !.pc = "updateBlockers"]}
                /\ UNCHANGED <<stage, loading>>
           ELSE FinishRoadmap(c)
        /\ UNCHANGED adverse
     \/ \* testError
        /\ CompletionAbort(c)
        /\ UNCHANGED <<diagnostic_tests, stage>>
  /\ UNCHANGED <<age, studentId, testId, currentQuestion, questions, responses,
                 blockers, roadmap, route>>
  /\ UNCHANGED <<students, test_responses, blockers_detected,
                 remediation_roadmaps, enrolls>>

\* await supabase.from("blockers_detected").update({is_confirmed: true})
\*   .eq("test_id", testId)
UpdateBlockers(c) ==
  /\ c \in completions /\ c.pc = "updateBlockers"
  /\ \/ /\ blockers_detected' =
             [i \in 1..Len(blockers_detected) |->
                IF blockers_detected[i].test_id = c.tid
                THEN [blockers_detected[i] EXCEPT !.is_confirmed = TRUE]
                ELSE blockers_detected[i]]
        /\ FinishRoadmap(c)
        /\ UNCHANGED adverse
     \/ \* blockerError
        /\ CompletionAbort(c)
        /\ UNCHANGED <<blockers_detected, stage>>
  /\ UNCHANGED <<age, studentId, testId, currentQuestion, questions, responses,
                 blockers, roadmap, route>>
  /\ UNCHANGED <<students, diagnostic_tests, test_responses,
                 remediation_roadmaps, enrolls>>

\* const progress = ... : the value of the progress bar, in percent.  The
\* doubles (n / 10) * 100 and ((n - 10) / 5) * 100 differ from these integers
\* by less than 1e-13 and are 0 for a quotient of 0, 100 for a quotient of
\* 1, so they lie in 0..100 exactly when the integers do.
progress ==
  IF stage = "main-test"
  THEN (Len(responses) * 100) \div MAIN_TEST_LENGTH
  ELSE IF stage = "confirmatory"
  THEN ((Len(responses) - MAIN_TEST_LENGTH) * 100) \div CONFIRMATORY_LENGTH
  ELSE 0

\* the roadmap card: Overall Severity: {roadmap.overallSeverity}
DisplayedSeverity == roadmap[1].overallSeverity

(* ------------------------------------------------------------------ *)
(* The session                                                        *)
(* ------------------------------------------------------------------ *)

Via == {"button", "enter"}

Next ==
  \/ \E v \in AgeInputs : setAge(v)
  \/ handleAgeSubmit
  \/ \E name \in NameInputs, via \in Via : handleStudentInfoSubmit(name, via)
  \/ \E e \in BagToSet(enrolls) : EnrollStore(e)
  \/ \E e \in BagToSet(enrolls) : EnrollFetchQuestions(e)
  \/ \E userAnswer \in AnswerInputs, via \in Via : handleAnswerSubmit(userAnswer, via)
  \/ \E c \in completions : SaveResponses(c)
  \/ \E c \in completions : InsertBlockers(c)
  \/ \E c \in completions : FetchConfirmatory(c)
  \/ \E c \in completions : FetchRoadmap(c)
  \/ \E c \in completions : InsertRoadmap(c)
  \/ \E c \in completions : UpdateTest(c)
  \/ \E c \in completions : UpdateBlockers(c)

Spec == Init /\ [][Next]_vars

(* ------------------------------------------------------------------ *)
(* detectBlockers' computation on arbitrary response sequences        *)
(* ------------------------------------------------------------------ *)

\* length of the response sequences given to the detector
MaxDetectLen == 5

\* constructs of the generate-question prompt used in those sequences
DetectConstructs == {"Number Sense", "Place Value", "Working Memory"}

\* one more response on construct `c`, and the detector applied to the
\* sequence: constructErrors, the filter and setBlockers(detectedBlockers)
DetectInput(c, userAnswer) ==
  /\ Len(responses) < MaxDetectLen
  /\ responses' = Append(responses,
       MakeResponse(Question(Len(responses) + 1, c), userAnswer, Len(responses)))
  /\ blockers' = DetectedBlockers(responses')
  /\ UNCHANGED <<stage, age, studentId, testId, currentQuestion, questions,
                 loading, roadmap, route>>
  /\ UNCHANGED <<db, enrolls, completions, adverse>>

NextDetect ==
  \E c \in DetectConstructs, userAnswer \in {CorrectTyped, WrongTyped} :
    DetectInput(c, userAnswer)

SpecDetect == Init /\ [][NextDetect]_vars

(* ------------------------------------------------------------------ *)
(* generateRoadmap's severity on arbitrary blocker counts and rates   *)
(* ------------------------------------------------------------------ *)

\* number of blockers in generateRoadmap's closure
MaxBlockers == 4

\* number of responses given to generateRoadmap
MaxTotal == 15

\* the constructs the generate-question prompt lists
ConstructNames ==
  << "Number Sense", "Place Value", "Basic Arithmetic", "Pattern Recognition",
     "Spatial Reasoning", "Working Memory" >>

\* a generateRoadmap(allResponses) call that has stored its roadmap and is
\* about to compute the severity, with `b` blockers in its closure and
\* `incorrect` incorrect responses among the `total` of allResponses
InitSeverity ==
  \E b \in 0..MaxBlockers, total \in 1..MaxTotal :
    \E incorrect \in 0..total :
      LET blk == [i \in 1..b |->
                   [blocker_name |-> ConstructNames[i],
                    error_count |-> BlockerThreshold]]
          hist == [i \in 1..total |->
                    MakeResponse(Question(i, ConstructNames[1]),
                                 IF i <= incorrect THEN WrongTyped ELSE CorrectTyped,
                                 i - 1)]
          rm == <<[overallSeverity |-> "none"]>>
      IN /\ stage = "main-test"
         /\ age = Num(MinAge)
         /\ studentId = 1
         /\ testId = 1
         /\ currentQuestion = 0
         /\ questions = <<>>
         /\ responses = hist
         /\ loading = TRUE
         /\ blockers = blk
         /\ roadmap = rm
         /\ route = "diagnostic"
         /\ students = <<[id |-> 1, teacher_id |-> TeacherId,
                          name |-> <<"A", "b">>, age |-> MinAge]>>
         /\ diagnostic_tests = <<[id |-> 1, student_id |-> 1,
                                  status |-> "in_progress", age_at_test |-> MinAge,
                                  overall_severity |-> "none"]>>
         /\ test_responses = <<>>
         /\ blockers_detected = <<>>
         /\ remediation_roadmaps = <<[test_id |-> 1, roadmap_data |-> rm[1]]>>
         /\ enrolls = EmptyBag
         /\ completions = {[pc |-> "updateTest", tid |-> 1, age |-> Num(MinAge),
                            qs |-> <<>>, blk |-> blk, resp |-> hist, rm |-> rm]}
         /\ adverse = 0

NextSeverity ==
  \/ \E c \in completions : UpdateTest(c)
  \/ \E c \in completions : UpdateBlockers(c)

SpecSeverity == InitSeverity /\ [][NextSeverity]_vars

(* ------------------------------------------------------------------ *)
(* isCorrect of handleAnswerSubmit on arbitrary answers               *)
(* ------------------------------------------------------------------ *)

\* length of the typed answer and of the reference answer
MaxTextLen == 2

TextChars == {" ", "a", "A", "b"}

Texts == UNION {[1..n -> TextChars] : n \in 0..MaxTextLen}

\* the first question of the main test is on the screen; its reference
\* answer is any text the provider may have written
InitEvaluate ==
  \E correctAnswer \in Texts :
    /\ stage = "main-test"
    /\ age = Num(MinAge)
    /\ studentId = 1
    /\ testId = 1
    /\ currentQuestion = 0
    /\ questions = [MainBatch EXCEPT ![1].correctAnswer = correctAnswer]
    /\ responses = <<>>
    /\ loading = FALSE
    /\ blockers = <<>>
    /\ roadmap = <<>>
    /\ route = "diagnostic"
    /\ students = <<[id |-> 1, teacher_id |-> TeacherId,
                     name |-> <<"A", "b">>, age |-> MinAge]>>
    /\ diagnostic_tests = <<[id |-> 1, student_id |-> 1,
                             status |-> "in_progress", age_at_test |-> MinAge,
                             overall_severity |-> "none"]>>
    /\ test_responses = <<>>
    /\ blockers_detected = <<>>
    /\ remediation_roadmaps = <<>>
    /\ enrolls = EmptyBag
    /\ completions = {}
    /\ adverse = 0

\* the answer to that question
NextEvaluate ==
  \E userAnswer \in Texts, via \in Via :
    /\ currentQuestion = 0
    /\ handleAnswerSubmit(userAnswer, via)

SpecEvaluate == InitEvaluate /\ [][NextEvaluate]_vars

(* ------------------------------------------------------------------ *)
(* The completion of a main test on arbitrary constructs and answers  *)
(* ------------------------------------------------------------------ *)

\* a batch of 10 questions over the first d constructs of the prompt, in
\* rotation
RotatingBatch(d) ==
  [i \in 1..BatchCount |-> Question(i, ConstructNames[((i - 1) % d) + 1])]

\* the tenth answer of a main test has just been recorded: the questions
\* are on any number of distinct constructs, any of the answers are
\* incorrect, and the call is at await saveResponses(...)
InitMainComplete ==
  \E d \in 1..Len(ConstructNames), wrong \in SUBSET (1..MAIN_TEST_LENGTH) :
    LET qs == RotatingBatch(d)
        hist == [i \in 1..MAIN_TEST_LENGTH |->
                  MakeResponse(qs[i],
                               IF i \in wrong THEN WrongTyped ELSE CorrectTyped,
                               i - 1)]
    IN /\ stage = "main-test"
       /\ age = Num(MinAge)
       /\ studentId = 1
       /\ testId = 1
       /\ currentQuestion = MAIN_TEST_LENGTH - 1
       /\ questions = qs
       /\ responses = hist
       /\ loading = FALSE
       /\ blockers = <<>>
       /\ roadmap = <<>>
       /\ route = "diagnostic"
       /\ students = <<[id |-> 1, teacher_id |-> TeacherId,
                        name |-> <<"A", "b">>, age |-> MinAge]>>
       /\ diagnostic_tests = <<[id |-> 1, student_id |-> 1,
                                status |-> "in_progress", age_at_test |-> MinAge,
                                overall_severity |-> "none"]>>
       /\ test_responses = <<>>
       /\ blockers_detected = <<>>
       /\ remediation_roadmaps = <<>>
       /\ enrolls = EmptyBag
       /\ completions = {[pc |-> "saveMain", tid |-> 1, age |-> Num(MinAge),
                          qs |-> qs, blk |-> <<>>, resp |-> hist, rm |-> <<>>]}
       /\ adverse = 0

\* the calls that follow the tenth answer, up to stage roadmap or to the
\* arrival of the confirmatory questions
NextMainComplete ==
  \/ \E c \in completions : SaveResponses(c)
  \/ \E c \in completions : InsertBlockers(c)
  \/ \E c \in completions : FetchConfirmatory(c)
  \/ \E c \in completions : FetchRoadmap(c)
  \/ \E c \in completions : InsertRoadmap(c)
  \/ \E c \in completions : UpdateTest(c)

SpecMainComplete == InitMainComplete /\ [][NextMainComplete]_vars

(* ------------------------------------------------------------------ *)
(* The row-level-security policies of the store                       *)
(* ------------------------------------------------------------------ *)

\* rows in the five tables together
MaxRows == 5

\* auth.uid() of the callers: two teachers
Teachers == {1, 2}

\* names a student row may be given
StudentNames == {<<"A", "b">>, <<"b">>}

\* Rows of this part carry the columns the policies read, and two fields
\* that are not columns: `creator` (students) and `writer` (every table),
\* the auth.uid() of the call that inserted, resp. last wrote, the row.

RowCount ==
  Len(students) + Len(diagnostic_tests) + Len(test_responses)
    + Len(blockers_detected) + Len(remediation_roadmaps)

\* students: USING / WITH CHECK (auth.uid() = teacher_id)
StudentsPolicy(uid, row) == uid = row.teacher_id

\* StudentTaughtBy that only asks for the student to exist
StudentExists(uid, student_id) ==
  \E i \in 1..Len(students) : students[i].id = student_id

\* EXISTS (SELECT 1 FROM students WHERE students.id = student_id
\*           AND students.teacher_id = auth.uid())
StudentTaughtBy(uid, student_id) ==
  \E i \in 1..Len(students) :
    students[i].id = student_id /\ students[i].teacher_id = uid

\* diagnostic_tests: USING / WITH CHECK
DiagnosticTestsPolicy(uid, row) == StudentTaughtBy(uid, row.student_id)

\* EXISTS (SELECT 1 FROM diagnostic_tests dt JOIN students s
\*           ON dt.student_id = s.id
\*         WHERE dt.id = test_id AND s.teacher_id = auth.uid())
TestTaughtBy(uid, test_id) ==
  \E i \in 1..Len(diagnostic_tests) :
    /\ diagnostic_tests[i].id = test_id
    /\ StudentTaughtBy(uid, diagnostic_tests[i].student_id)

\* test_responses, blockers_detected, remediation_roadmaps: USING / WITH CHECK
ChildPolicy(uid, row) == TestTaughtBy(uid, row.test_id)

\* SELECT on students: the rows the USING clause lets `uid` see
VisibleStudents(uid) ==
  {i \in 1..Len(students) : StudentsPolicy(uid, students[i])}

\* SELECT on diagnostic_tests
VisibleTests(uid) ==
  {i \in 1..Len(diagnostic_tests) : DiagnosticTestsPolicy(uid, diagnostic_tests[i])}

\* SELECT on test_responses, blockers_detected or remediation_roadmaps
VisibleChildren(uid, table) ==
  {i \in 1..Len(table) : ChildPolicy(uid, table[i])}

InitStore ==
  /\ stage = "age"
  /\ age = Null
  /\ studentId = NoId
  /\ testId = NoId
  /\ currentQuestion = 0
  /\ questions = <<>>
  /\ responses = <<>>
  /\ loading = FALSE
  /\ blockers = <<>>
  /\ roadmap = <<>>
  /\ route = "diagnostic"
  /\ students = <<>>
  /\ diagnostic_tests = <<>>
  /\ test_responses = <<>>
  /\ blockers_detected = <<>>
  /\ remediation_roadmaps = <<>>
  /\ enrolls = EmptyBag
  /\ completions = {}
  /\ adverse = 0

\* INSERT INTO students by `uid`: WITH CHECK on the new row
StudentsInsert(uid, teacher_id) ==
  LET row == [id |-> Len(students) + 1, teacher_id |-> teacher_id,
              name |-> <<"A", "b">>, creator |-> uid, writer |-> uid]
  IN /\ RowCount < MaxRows
     /\ StudentsPolicy(uid, row)
     /\ students' = Append(students, row)
     /\ UNCHANGED <<diagnostic_tests, test_responses, blockers_detected,
                    remediation_roadmaps>>
     /\ UNCHANGED <<ui, enrolls, completions, adverse>>

\* UPDATE students by `uid`: USING on the row as it is, and (no WITH CHECK
\* given) the same expression on the row as it would be
StudentsUpdate(uid, i, teacher_id, name) ==
  /\ i \in 1..Len(students)
  /\ LET row == [students[i] EXCEPT !.teacher_id = teacher_id, !.name = name,
                                    !.writer = uid]
     IN /\ row # students[i]
        /\ StudentsPolicy(uid, students[i])
        /\ StudentsPolicy(uid, row)
        /\ students' = [students EXCEPT ![i] = row]
  /\ UNCHANGED <<diagnostic_tests, test_responses, blockers_detected,
                 remediation_roadmaps>>
  /\ UNCHANGED <<ui, enrolls, completions, adverse>>

\* INSERT INTO diagnostic_tests by `uid` (student_id is a foreign key)
DiagnosticTestsInsert(uid, student_id) ==
  LET row == [id |-> Len(diagnostic_tests) + 1, student_id |-> student_id,
              status |-> "in_progress", writer |-> uid]
  IN /\ RowCount < MaxRows
     /\ student_id \in 1..Len(students)
     /\ DiagnosticTestsPolicy(uid, row)
     /\ diagnostic_tests' = Append(diagnostic_tests, row)
     /\ UNCHANGED <<students, test_responses, blockers_detected,
                    remediation_roadmaps>>
     /\ UNCHANGED <<ui, enrolls, completions, adverse>>

\* UPDATE diagnostic_tests by `uid`
DiagnosticTestsUpdate(uid, i, student_id, status) ==
  /\ i \in 1..Len(diagnostic_tests)
  /\ student_id \in 1..Len(students)
  /\ LET row == [diagnostic_tests[i] EXCEPT !.student_id = student_id,
                                            !.status = status, !.writer = uid]
     IN /\ row # diagnostic_tests[i]
        /\ DiagnosticTestsPolicy(uid, diagnostic_tests[i])
        /\ DiagnosticTestsPolicy(uid, row)
        /\ diagnostic_tests' = [diagnostic_tests EXCEPT ![i] = row]
  /\ UNCHANGED <<students, test_responses, blockers_detected,
                 remediation_roadmaps>>
  /\ UNCHANGED <<ui, enrolls, completions, adverse>>

\* INSERT INTO test_responses by `uid` (no UPDATE policy: never updated)
TestResponsesInsert(uid, test_id) ==
  LET row == [test_id |-> test_id, writer |-> uid]
  IN /\ RowCount < MaxRows
     /\ test_id \in 1..Len(diagnostic_tests)
     /\ ChildPolicy(uid, row)
     /\ test_responses' = Append(test_responses, row)
     /\ UNCHANGED <<students, diagnostic_tests, blockers_detected,
                    remediation_roadmaps>>
     /\ UNCHANGED <<ui, enrolls, completions, adverse>>

\* INSERT INTO blockers_detected by `uid`
BlockersDetectedInsert(uid, test_id) ==
  LET row == [test_id |-> test_id, is_confirmed |-> FALSE, writer |-> uid]
  IN /\ RowCount < MaxRows
     /\ test_id \in 1..Len(diagnostic_tests)
     /\ ChildPolicy(uid, row)
     /\ blockers_detected' = Append(blockers_detected, row)
     /\ UNCHANGED <<students, diagnostic_tests, test_responses,
                    remediation_roadmaps>>
     /\ UNCHANGED <<ui, enrolls, completions, adverse>>

\* UPDATE blockers_detected by `uid`
BlockersDetectedUpdate(uid, i, test_id, is_confirmed) ==
  /\ i \in 1..Len(blockers_detected)
  /\ test_id \in 1..Len(diagnostic_tests)
  /\ LET row == [blockers_detected[i] EXCEPT !.test_id = test_id,
                   !.is_confirmed = is_confirmed, !.writer = uid]
     IN /\ row # blockers_detected[i]
        /\ ChildPolicy(uid, blockers_detected[i])
        /\ ChildPolicy(uid, row)
        /\ blockers_detected' = [blockers_detected EXCEPT ![i] = row]
  /\ UNCHANGED <<students, diagnostic_tests, test_responses,
                 remediation_roadmaps>>
  /\ UNCHANGED <<ui, enrolls, completions, adverse>>

\* INSERT INTO remediation_roadmaps by `uid` (no UPDATE policy)
RemediationRoadmapsInsert(uid, test_id) ==
  LET row == [test_id |-> test_id, writer |-> uid]
  IN /\ RowCount < MaxRows
     /\ test_id \in 1..Len(diagnostic_tests)
     /\ ChildPolicy(uid, row)
     /\ remediation_roadmaps' = Append(remediation_roadmaps, row)
     /\ UNCHANGED <<students, diagnostic_tests, test_responses,
                    blockers_detected>>
     /\ UNCHANGED <<ui, enrolls, completions, adverse>>

\* every statement either teacher may send that a policy lets through
NextStore ==
  \E uid \in Teachers :
    \/ \E t \in Teachers : StudentsInsert(uid, t)
    \/ \E i \in 1..MaxRows, t \in Teachers, name \in StudentNames :
         StudentsUpdate(uid, i, t, name)
    \/ \E sid \in 1..MaxRows : DiagnosticTestsInsert(uid, sid)
    \/ \E i, sid \in 1..MaxRows, st \in {"in_progress", "completed"} :
         DiagnosticTestsUpdate(uid, i, sid, st)
    \/ \E tid \in 1..MaxRows : TestResponsesInsert(uid, tid)
    \/ \E tid \in 1..MaxRows : BlockersDetectedInsert(uid, tid)
    \/ \E i, tid \in 1..MaxRows, cf \in BOOLEAN :
         BlockersDetectedUpdate(uid, i, tid, cf)
    \/ \E tid \in 1..MaxRows : RemediationRoadmapsInsert(uid, tid)

SpecStore == InitStore /\ [][NextStore]_vars

(* ------------------------------------------------------------------ *)
(* What the specification says, stated apart from the code            *)
(* ------------------------------------------------------------------ *)

\* age capture -> enrollment -> main test -> confirmatory test -> complete
StageRank(st) ==
  CASE st = "age" -> 0
    [] st = "student-info" -> 1
    [] st = "main-test" -> 2
    [] st = "confirmatory" -> 3
    [] st = "roadmap" -> 4

\* the main-test part of a response history
MainResponses(rs) == SubSeq(rs, 1, IF Len(rs) < MAIN_TEST_LENGTH THEN Len(rs) ELSE MAIN_TEST_LENGTH)

\* number of incorrect responses of `rs` on construct `c`
ErrorsOn(rs, c) ==
  Cardinality({i \in 1..Len(rs) : rs[i].construct = c /\ ~rs[i].isCorrect})

ConstructsOf(rs) == {rs[i].construct : i \in 1..Len(rs)}

\* the constructs the Blocker Detector promotes: two or more errors
PromotedConstructs(rs) == {c \in ConstructsOf(rs) : ErrorsOn(rs, c) >= 2}

\* C1: the stage only moves forward along age -> student-info -> main-test
\* -> confirmatory -> roadmap, one stage at a time except that confirmatory
\* may be skipped, and never leaves roadmap.
C1_StageOrder ==
  [][\/ stage' = stage
     \/ StageRank(stage') = StageRank(stage) + 1
     \/ stage = "main-test" /\ stage' = "roadmap"]_vars

\* C2: the session enters confirmatory only from main-test and only when
\* some construct has two or more incorrect responses among the ten
\* main-test responses; when no construct has, it reaches roadmap straight
\* from main-test with an empty blocker set, and when one has, it reaches
\* roadmap only with the confirmatory responses recorded; a completed main
\* test asks for the roadmap in the one case and for the blocker records and
\* confirmatory questions in the other.
C2_ConfirmatoryIffBlockers ==
  [][/\ (stage' = "confirmatory" /\ stage # "confirmatory") =>
          /\ stage = "main-test"
          /\ Len(responses') >= MAIN_TEST_LENGTH
          /\ PromotedConstructs(MainResponses(responses')) # {}
     /\ (stage' = "roadmap" /\ stage # "roadmap") =>
          IF PromotedConstructs(MainResponses(responses')) = {}
            THEN /\ stage = "main-test"
                 /\ Len(responses') >= MAIN_TEST_LENGTH
                 /\ blockers' = <<>>
            ELSE Len(responses') >= MAIN_TEST_LENGTH + CONFIRMATORY_LENGTH
     /\ \A c \in completions' :
          /\ c.pc \in {"insertBlockers", "fetchConfirmatory"} =>
               PromotedConstructs(MainResponses(c.resp)) # {}
          /\ (c.pc = "fetchRoadmap" /\ Len(c.resp) = MAIN_TEST_LENGTH) =>
               PromotedConstructs(c.resp) = {}]_vars

\* C2 witness: ten correct main-test answers have led to roadmap with no
\* blocker and without the confirmatory questions
C2_Witness ==
  /\ stage = "roadmap"
  /\ Len(responses) = MAIN_TEST_LENGTH
  /\ \A i \in 1..Len(responses) : responses[i].isCorrect
  /\ blockers = <<>>
  /\ Len(questions) = MAIN_TEST_LENGTH

\* C3: at completion the session holds exactly 10 responses and no blocker,
\* or exactly 15 responses and at least one blocker.
C3_ResponseCountAtCompletion ==
  stage = "roadmap" =>
    \/ Len(responses) = MAIN_TEST_LENGTH /\ blockers = <<>>
    \/ Len(responses) = MAIN_TEST_LENGTH + CONFIRMATORY_LENGTH /\ blockers # <<>>

\* C4: the detector returns construct c with error count n exactly when n
\* is the number of incorrect responses on c and n >= 2; no construct is
\* returned twice.
C4_DetectorExact ==
  /\ \A i \in 1..Len(blockers) :
       /\ blockers[i].error_count = ErrorsOn(responses, blockers[i].blocker_name)
       /\ blockers[i].error_count >= 2
       /\ \A j \in 1..Len(blockers) :
            blockers[j].blocker_name = blockers[i].blocker_name => i = j
  /\ \A c \in ConstructsOf(responses) :
       ErrorsOn(responses, c) >= 2 =>
         \E i \in 1..Len(blockers) : blockers[i].blocker_name = c

\* C4 witness: Number Sense with three errors is returned, Place Value with
\* one error is not
C4_Witness ==
  /\ blockers = <<[blocker_name |-> "Number Sense", error_count |-> 3]>>
  /\ ErrorsOn(responses, "Place Value") = 1
  /\ \E i \in 1..Len(responses) :
       responses[i].construct = "Number Sense" /\ responses[i].isCorrect

SeverityNames == <<"none", "mild", "moderate", "severe">>

\* the row of the severity table a blocker count reaches by itself
BlockerLevel(b) == IF b >= 3 THEN 3 ELSE b

\* the row an error rate incorrect/total reaches by itself: one row for
\* each of 0.2, 0.4, 0.6 it strictly exceeds
RateLevel(incorrect, total) ==
  Cardinality({k \in {2, 4, 6} : incorrect * 10 > k * total})

\* first matching row of the table of section 4.3
SeverityTable(b, incorrect, total) ==
  LET bl == BlockerLevel(b)
      rl == RateLevel(incorrect, total)
  IN SeverityNames[(IF bl > rl THEN bl ELSE rl) + 1]

\* C5: the severity written for b blockers and incorrect/total is the
\* first matching row of the table: severe for b >= 3 or rate > 0.6,
\* moderate for b >= 2 or rate > 0.4, mild for b >= 1 or rate > 0.2, none
\* otherwise.
C5_SeverityTable ==
  \A i \in 1..Len(diagnostic_tests) :
    diagnostic_tests[i].status = "completed" =>
      diagnostic_tests[i].overall_severity =
        SeverityTable(Len(blockers), ErrorsOn(responses, ConstructNames[1]),
                      Len(responses))

\* C5 witness: a rate of exactly 0.6 with no blocker has been written as
\* moderate
C5_Witness ==
  /\ blockers = <<>>
  /\ Len(responses) = 10
  /\ ErrorsOn(responses, ConstructNames[1]) = 6
  /\ diagnostic_tests[1].status = "completed"
  /\ diagnostic_tests[1].overall_severity = "moderate"

ErrorsIn(rs) == Cardinality({i \in 1..Len(rs) : ~rs[i].isCorrect})

\* the responses of the whole test: 10 without blockers, 15 with
HistoryLength(rs) ==
  IF PromotedConstructs(MainResponses(rs)) = {}
  THEN MAIN_TEST_LENGTH
  ELSE MAIN_TEST_LENGTH + CONFIRMATORY_LENGTH

\* C6: the overall_severity of a completed test is the table's value for
\* the number of blockers detected after the main test and the error rate
\* over the whole response history of the test.
C6_SeverityOverHistory ==
  \A i \in 1..Len(diagnostic_tests) :
    diagnostic_tests[i].status = "completed" =>
      LET n == HistoryLength(responses) IN
      /\ Len(responses) >= n
      /\ diagnostic_tests[i].overall_severity =
           SeverityTable(Cardinality(PromotedConstructs(MainResponses(responses))),
                         ErrorsIn(SubSeq(responses, 1, n)), n)

\* C6 witness: a completed test with two main-test errors on one construct
\* and three confirmatory errors, written as mild
C6_Witness ==
  /\ Len(responses) = MAIN_TEST_LENGTH + CONFIRMATORY_LENGTH
  /\ ErrorsIn(MainResponses(responses)) = 2
  /\ ErrorsIn(responses) = 5
  /\ \E i \in 1..Len(diagnostic_tests) :
       /\ diagnostic_tests[i].status = "completed"
       /\ diagnostic_tests[i].overall_severity = "mild"

FirstErrorOn(rs, c) ==
  CHOOSE i \in 1..Len(rs) :
    /\ rs[i].construct = c /\ ~rs[i].isCorrect
    /\ \A j \in 1..(i - 1) : ~(rs[j].construct = c /\ ~rs[j].isCorrect)

\* the promoted construct whose first incorrect response comes earliest
PrimaryBlocker(rs) ==
  CHOOSE c \in PromotedConstructs(rs) :
    \A d \in PromotedConstructs(rs) : FirstErrorOn(rs, c) <= FirstErrorOn(rs, d)

\* C7: a pending request for confirmatory questions carries the session's
\* age and the promoted construct whose first incorrect main-test response
\* comes earliest.
C7_ConfirmatoryForPrimary ==
  \A c \in completions :
    c.pc = "fetchConfirmatory" =>
      ConfirmatoryRequest(c) =
        [age |-> age, blockerName |-> PrimaryBlocker(MainResponses(responses))]

\* C7 witness: a request is pending for a primary blocker that has fewer
\* errors than another promoted construct
C7_Witness ==
  \E c \in completions :
    /\ c.pc = "fetchConfirmatory"
    /\ \E d \in PromotedConstructs(MainResponses(responses)) :
         ErrorsOn(MainResponses(responses), d) >
           ErrorsOn(MainResponses(responses),
                    PrimaryBlocker(MainResponses(responses)))

ValidAge(a) == a.kind = "number" /\ a.v >= 5

\* C8: handleAgeSubmit with a missing, non-numeric or below-5 age changes
\* nothing, with an age of 5 or more it moves to student-info and changes
\* nothing else; in every stage after age the age is a number >= 5.
C8_AgeGate ==
  [][/\ stage' # "age" => ValidAge(age')
     /\ handleAgeSubmit =>
          IF ValidAge(age)
          THEN /\ stage' = "student-info"
               /\ UNCHANGED <<age, studentId, testId, currentQuestion, questions,
                              responses, loading, blockers, roadmap, route, db,
                              enrolls, completions, adverse>>
          ELSE UNCHANGED vars]_vars

\* C8 witness: an age of 5 has been accepted
C8_Witness == stage = "student-info" /\ age = Num(5) /\ students = <<>>

\* only whitespace, or nothing
BlankText(s) == \A i \in 1..Len(s) : s[i] \in {" ", "\t"}

\* C9: handleStudentInfoSubmit with a blank name changes nothing; a pending
\* question request asks for 10 questions for the session's age with an
\* empty error history; when every call has succeeded the session enters
\* main-test with the questions received, no responses and the cursor at 0.
C9_Enrollment ==
  [][/\ \A name \in NameInputs, via \in Via :
          (BlankText(name) /\ handleStudentInfoSubmit(name, via)) => UNCHANGED vars
     /\ \A e \in BagToSet(enrolls') :
          e.pc = "fetchQuestions" =>
            QuestionRequest(e) =
              [age |-> age', errorHistory |-> <<>>, count |-> MAIN_TEST_LENGTH]
     /\ (stage = "student-info" /\ stage' # "student-info") =>
          /\ stage' = "main-test"
          /\ responses' = <<>>
          /\ currentQuestion' = 0
     /\ (/\ adverse' = 0
         /\ \E e \in BagToSet(enrolls) :
              e.pc = "fetchQuestions" /\ enrolls' = enrolls (-) SetToBag({e})) =>
          /\ stage' = "main-test"
          /\ questions' # <<>>
          /\ responses' = <<>>
          /\ currentQuestion' = 0]_vars

\* C9 witness: enrolled, and in main-test on the first of 10 questions
C9_Witness ==
  /\ stage = "main-test"
  /\ Len(students) = 1 /\ Len(diagnostic_tests) = 1
  /\ Len(questions) = MAIN_TEST_LENGTH
  /\ responses = <<>>
  /\ currentQuestion = 0
  /\ adverse = 0

\* C10: handleAnswerSubmit with a blank answer changes nothing: no response
\* appended, cursor, stage, blockers, questions, roadmap and store as before,
\* no call started.
C10_BlankAnswer ==
  [][\A userAnswer \in AnswerInputs, via \in Via :
       (BlankText(userAnswer) /\ handleAnswerSubmit(userAnswer, via)) =>
         UNCHANGED vars]_vars

\* C10 witness: the answer field takes input while a stage completion is
\* pending
C10_Witness ==
  /\ stage \in {"main-test", "confirmatory"}
  /\ route = "diagnostic"
  /\ completions # {}
  /\ Len(responses) = MAIN_TEST_LENGTH

\* the text without its leading and trailing whitespace
Stripped(s) ==
  LET solid == {i \in 1..Len(s) : s[i] \notin {" ", "\t"}} IN
  IF solid = {} THEN <<>>
  ELSE SubSeq(s, CHOOSE i \in solid : \A j \in solid : i <= j,
                 CHOOSE i \in solid : \A j \in solid : j <= i)

\* the text case-folded
Folded(s) == [i \in 1..Len(s) |-> IF s[i] = "A" THEN "a" ELSE IF s[i] = "B" THEN "b" ELSE s[i]]

\* C11: a recorded response is marked correct exactly when the student's
\* answer and the reference answer are equal after both are trimmed and
\* case-folded.
C11_EvaluateNormalizesBoth ==
  \A i \in 1..Len(responses) :
    responses[i].isCorrect =
      (Folded(Stripped(responses[i].userAnswer)) =
         Folded(Stripped(responses[i].correctAnswer)))

\* C12: while the session is in student-info with one question request
\* pending, no other enrollment call in flight and every student of the
\* store with a test (the first request, or the retry after a request that
\* was rate-limited), the store holds exactly one student and one
\* diagnostic test.
C12_OneEnrollmentAfterRetry ==
  (/\ route = "diagnostic"
   /\ stage = "student-info"
   /\ BagCardinality(enrolls) = 1
   /\ \E e \in BagToSet(enrolls) : e.pc = "fetchQuestions"
   /\ Len(students) = Len(diagnostic_tests)) =>
    /\ Len(students) = 1
    /\ Len(diagnostic_tests) = 1

\* C13: when the main test is complete with a promoted construct, the
\* cursor still on the tenth question and no call pending (the confirmatory
\* request was refused), no blocker is committed in memory or in the store.
C13_NothingCommittedAfterRateLimit ==
  (/\ stage = "main-test"
   /\ completions = {}
   /\ Len(responses) = MAIN_TEST_LENGTH
   /\ currentQuestion = MAIN_TEST_LENGTH - 1
   /\ PromotedConstructs(responses) # {}) =>
    /\ blockers = <<>>
    /\ blockers_detected = <<>>

\* C14: when no call is pending, the session holds no data of a transition
\* it has not made: no student or test row before main-test, no blocker in
\* memory or in the store while in main-test, no roadmap in memory or in the
\* store before roadmap.
C14_NoPartialData ==
  (route = "diagnostic" /\ enrolls = EmptyBag /\ completions = {}) =>
    /\ stage \in {"age", "student-info"} =>
         students = <<>> /\ diagnostic_tests = <<>>
    /\ stage = "main-test" => blockers = <<>> /\ blockers_detected = <<>>
    /\ stage # "roadmap" => roadmap = <<>> /\ remediation_roadmaps = <<>>

\* the response list is full for the path the session is on (or past it),
\* no call is pending and no roadmap has been received: the roadmap request
\* has failed
Stranded ==
  /\ route = "diagnostic"
  /\ stage \in {"main-test", "confirmatory"}
  /\ enrolls = EmptyBag /\ completions = {}
  /\ roadmap = <<>>
  /\ Len(responses) >= HistoryLength(responses)

\* no step leads out of Stranded: whatever the caller does next, stage
\* roadmap is not reached from there
StrandedForEver == [][Stranded => Stranded']_vars

\* C15: the session is never left in main-test or confirmatory with a full
\* response list, a failed roadmap request and no action that leads to
\* stage roadmap.
C15_NeverStranded == ~Stranded

\* number of responses the store must hold before a call may go on past
\* saveResponses with the response list `rs`
PersistedBefore(rs) ==
  IF Len(rs) > MAIN_TEST_LENGTH
  THEN MAIN_TEST_LENGTH + CONFIRMATORY_LENGTH
  ELSE MAIN_TEST_LENGTH

\* C16: blocker detection, the confirmatory request, the roadmap request
\* and the stage change happen only with the responses of the finished
\* stage in the store.
C16_AdvanceOnlyAfterPersist ==
  /\ \A c \in completions :
       c.pc \notin {"saveMain", "saveConfirmatory"} =>
         Len(test_responses) >= PersistedBefore(c.resp)
  /\ stage \in {"confirmatory", "roadmap"} =>
       Len(test_responses) >= MAIN_TEST_LENGTH

\* C17: no response is appended while a stage completion is pending.
C17_NoAnswerWhilePending ==
  [][completions # {} => responses' = responses]_vars

\* C18: a response is created only in main-test or confirmatory; in age,
\* student-info and roadmap an answer submission leaves responses, cursor
\* and stage as they are.
C18_AnswersOnlyInTestStages ==
  [][stage \notin {"main-test", "confirmatory"} =>
       /\ responses' = responses
       /\ \A userAnswer \in AnswerInputs, via \in Via :
            handleAnswerSubmit(userAnswer, via) =>
              UNCHANGED <<responses, currentQuestion, stage>>]_vars

\* C18 witness: the session is complete and the cursor is on a question of
\* the queue
C18_Witness ==
  /\ route = "diagnostic"
  /\ stage = "roadmap"
  /\ currentQuestion < Len(questions)
  /\ ~loading

\* C19: where an answer can be accepted the queue is full for the stage and
\* the cursor is on a question of the stage.
C19_QueuePopulated ==
  route = "diagnostic" =>
    /\ stage = "main-test" =>
         /\ Len(questions) = MAIN_TEST_LENGTH
         /\ currentQuestion < MAIN_TEST_LENGTH
    /\ stage = "confirmatory" =>
         /\ Len(questions) = MAIN_TEST_LENGTH + CONFIRMATORY_LENGTH
         /\ MAIN_TEST_LENGTH <= currentQuestion
         /\ currentQuestion < MAIN_TEST_LENGTH + CONFIRMATORY_LENGTH

\* C20: no question of the queue is recorded twice in the response list.
C20_OneResponsePerQuestion ==
  \A i, j \in 1..Len(responses) :
    responses[i].questionNumber = responses[j].questionNumber => i = j

\* C21: the k-th response of the session has questionNumber k and records
\* the k-th question of the queue; the confirmatory responses are the ones
\* numbered 11 to 15.
C21_ContinuousNumbering ==
  \A k \in 1..Len(responses) :
    /\ responses[k].questionNumber = k
    /\ k <= Len(questions)
    /\ responses[k].questionText = questions[k].questionText
    /\ k <= MAIN_TEST_LENGTH + CONFIRMATORY_LENGTH

\* construct and error count of the blocker records, in insertion order
BlockerRecords ==
  [i \in 1..Len(blockers_detected) |->
     [test_id |-> blockers_detected[i].test_id,
      blocker_name |-> blockers_detected[i].blocker_name,
      error_count |-> blockers_detected[i].error_count]]

\* C22: the blocker set is written once, from the ten main-test responses;
\* from the moment the session is in confirmatory no step (no answer
\* submission, whatever the answer) changes the blockers in memory or the
\* construct and error count of a blocker record.
C22_DetectOnce ==
  [][/\ blockers' # blockers =>
          /\ blockers = <<>>
          /\ Len(responses') >= MAIN_TEST_LENGTH
          /\ blockers' = DetectedBlockers(MainResponses(responses'))
     /\ stage = "confirmatory" =>
          /\ blockers' = blockers
          /\ BlockerRecords' = BlockerRecords]_vars

\* C22 witness: the session is Complete after a confirmatory answer that
\* was incorrect on the blocker's construct, and the blocker still has the
\* error count of the main test
C22_Witness ==
  /\ stage = "roadmap"
  /\ Len(responses) = MAIN_TEST_LENGTH + CONFIRMATORY_LENGTH
  /\ Len(blockers) = 1
  /\ blockers[1].error_count =
       ErrorsOn(MainResponses(responses), blockers[1].blocker_name)
  /\ ErrorsOn(responses, blockers[1].blocker_name) > blockers[1].error_count
  /\ BlockerRecords = <<[test_id |-> testId,
                         blocker_name |-> blockers[1].blocker_name,
                         error_count |-> blockers[1].error_count]>>

\* the severity of the scorer for the session: the blockers of the main
\* test and the error rate over the response history of the test
ScorerSeverity ==
  LET n == HistoryLength(responses) IN
  SeverityTable(Cardinality(PromotedConstructs(MainResponses(responses))),
                ErrorsIn(SubSeq(responses, 1, n)), n)

\* the effects of the Complete transition on the records of test `tid`
CompleteEffects(tid) ==
  /\ \E i \in 1..Len(diagnostic_tests) :
       /\ diagnostic_tests[i].id = tid
       /\ diagnostic_tests[i].status = "completed"
       /\ Len(responses) >= HistoryLength(responses)
       /\ diagnostic_tests[i].overall_severity = ScorerSeverity
  /\ \E i \in 1..Len(remediation_roadmaps) :
       /\ remediation_roadmaps[i].test_id = tid
       /\ remediation_roadmaps[i].roadmap_data = roadmap[1]
  /\ \A i \in 1..Len(blockers_detected) :
       blockers_detected[i].test_id = tid => blockers_detected[i].is_confirmed

StatusOf(tid) ==
  LET i == CHOOSE i \in 1..Len(diagnostic_tests) : diagnostic_tests[i].id = tid
  IN diagnostic_tests[i].status

\* C24: no blocker record is confirmed while its test is in_progress, and
\* once no call is pending no test is completed while one of its blocker
\* records is unconfirmed.
C24_ConfirmedIffCompleted ==
  \A i \in 1..Len(blockers_detected) :
    /\ blockers_detected[i].is_confirmed =>
         StatusOf(blockers_detected[i].test_id) = "completed"
    /\ (completions = {} /\ StatusOf(blockers_detected[i].test_id) = "completed") =>
         blockers_detected[i].is_confirmed

\* C25: once no call is pending, a session enrolled once has a roadmap
\* attached only in stage roadmap, and its test record is completed only in
\* stage roadmap.
C25_NullUntilCompletion ==
  (/\ route = "diagnostic"
   /\ enrolls = EmptyBag /\ completions = {}
   /\ Len(diagnostic_tests) <= 1) =>
    /\ roadmap # <<>> => stage = "roadmap"
    /\ \A i \in 1..Len(diagnostic_tests) :
         diagnostic_tests[i].status = "completed" => stage = "roadmap"

\* the severity written on a completed test record is the scorer's value
\* for the responses and blockers of its call, whatever roadmap the
\* provider has answered with
PersistedSeverityIndependent ==
  /\ \A c \in completions, rm \in RoadmapReplies :
       ComputedSeverity([c EXCEPT !.rm = <<rm>>]) = ComputedSeverity(c)
  /\ \A i \in 1..Len(diagnostic_tests) :
       diagnostic_tests[i].status = "completed" =>
         diagnostic_tests[i].overall_severity = ScorerSeverity

\* C26: the severity of a Complete session is the scorer's: the severity on
\* its test record does not depend on the provider's roadmap, and the
\* severity the session shows is that severity, not the provider's
\* overallSeverity.
C26_SeverityIsTheScorers ==
  (route = "diagnostic" /\ stage = "roadmap") =>
    \A i \in 1..Len(diagnostic_tests) :
      diagnostic_tests[i].status = "completed" =>
        /\ diagnostic_tests[i].overall_severity = ScorerSeverity
        /\ DisplayedSeverity = diagnostic_tests[i].overall_severity

\* the row of the severity table an error rate reaches with no blocker
RateOnlySeverity(rs) == SeverityNames[RateLevel(ErrorsIn(rs), Len(rs)) + 1]

\* the main test has produced no blocker
NoBlockerSession ==
  /\ Len(responses) = MAIN_TEST_LENGTH
  /\ PromotedConstructs(responses) = {}

\* C27 as stated: a main test without blocker skips confirmation, asks for
\* the roadmap with an empty blocker list, and its severity is none or
\* mild, whatever the constructs and the answers.
C27_NoBlockerNoneOrMild ==
  NoBlockerSession =>
    /\ stage # "confirmatory"
    /\ \A c \in completions :
         /\ c.pc \notin {"insertBlockers", "fetchConfirmatory"}
         /\ c.pc = "fetchRoadmap" => RoadmapRequest(c).blockers = <<>>
    /\ \A i \in 1..Len(diagnostic_tests) :
         diagnostic_tests[i].status = "completed" =>
           diagnostic_tests[i].overall_severity \in {"none", "mild"}

\* C27 amended: a main test without blocker skips confirmation, asks for
\* the roadmap with an empty blocker list, and its severity is the row of
\* the table its error rate reaches: none up to 2 incorrect answers of 10,
\* mild for 3 or 4, moderate for 5 or 6, severe above.
C27_NoBlockerByRate ==
  NoBlockerSession =>
    /\ stage # "confirmatory"
    /\ blockers = <<>> /\ blockers_detected = <<>>
    /\ \A c \in completions :
         /\ c.pc \notin {"insertBlockers", "fetchConfirmatory"}
         /\ c.pc = "fetchRoadmap" => RoadmapRequest(c).blockers = <<>>
    /\ \A i \in 1..Len(diagnostic_tests) :
         diagnostic_tests[i].status = "completed" =>
           /\ diagnostic_tests[i].overall_severity = RateOnlySeverity(responses)
           /\ diagnostic_tests[i].overall_severity \in {"none", "mild"}
                <=> ErrorsIn(responses) <= 4

\* C27 witness: five incorrect answers on five constructs, no blocker, and
\* the test completed as moderate
C27_Witness ==
  /\ NoBlockerSession
  /\ ErrorsIn(responses) = 5
  /\ stage = "roadmap"
  /\ diagnostic_tests[1].status = "completed"
  /\ diagnostic_tests[1].overall_severity = "moderate"

\* C28: the blockers in memory and the blocker records of each test name
\* every construct at most once, with an error count of at least 2 that is
\* the number of incorrect responses on the construct among the first ten
\* responses of the session.
C28_BlockerSetWellFormed ==
  /\ \A i \in 1..Len(blockers) :
       /\ \A j \in 1..Len(blockers) :
            blockers[j].blocker_name = blockers[i].blocker_name => i = j
       /\ blockers[i].error_count >= 2
       /\ Len(responses) >= MAIN_TEST_LENGTH
       /\ blockers[i].error_count =
            ErrorsOn(MainResponses(responses), blockers[i].blocker_name)
  /\ \A i \in 1..Len(blockers_detected) :
       /\ \A j \in 1..Len(blockers_detected) :
            (/\ blockers_detected[j].test_id = blockers_detected[i].test_id
             /\ blockers_detected[j].blocker_name = blockers_detected[i].blocker_name)
              => i = j
       /\ blockers_detected[i].error_count >= 2
       /\ Len(responses) >= MAIN_TEST_LENGTH
       /\ blockers_detected[i].error_count =
            ErrorsOn(MainResponses(responses), blockers_detected[i].blocker_name)

\* C28 witness: two blockers in memory and in the store, on different
\* constructs, and a further incorrect answer on one of them after the
\* main test
C28_Witness ==
  /\ Len(blockers) = 2
  /\ Len(blockers_detected) = 2
  /\ blockers[1].blocker_name # blockers[2].blocker_name
  /\ Len(responses) > MAIN_TEST_LENGTH
  /\ \E i \in 1..Len(blockers) :
       ErrorsOn(responses, blockers[i].blocker_name) > blockers[i].error_count

\* C29: in stage roadmap the store holds one response record for each
\* response of the session, in order, one blocker record for each blocker
\* of the session, one roadmap record and one diagnostic-test record.
C29_RecordsComplete ==
  (route = "diagnostic" /\ stage = "roadmap") =>
    /\ Len(test_responses) = Len(responses)
    /\ \A k \in 1..Len(test_responses) :
         /\ k <= Len(responses)
         /\ test_responses[k] = ResponseRow(testId, responses[k])
    /\ Len(blockers_detected) = Len(blockers)
    /\ \A k \in 1..Len(blockers_detected) :
         /\ k <= Len(blockers)
         /\ blockers_detected[k].blocker_name = blockers[k].blocker_name
    /\ Len(remediation_roadmaps) = 1
    /\ Len(diagnostic_tests) = 1

\* the main test of the session has promoted construct `c` and no other
OneBlockerOn(c) ==
  /\ Len(responses) >= MAIN_TEST_LENGTH
  /\ PromotedConstructs(MainResponses(responses)) = {c}

C31_ProgressInRange ==
  (route = "diagnostic" /\ stage \in {"main-test", "confirmatory"}) =>
    LET inStage == IF stage = "main-test"
                   THEN Len(responses)
                   ELSE Len(responses) - 10
        length  == IF stage = "main-test" THEN 10 ELSE 5
    IN /\ progress * length = inStage * 100
       /\ 0 <= progress
       /\ progress <= 100

\* none < mild < moderate < severe
SeverityRank(sev) ==
  CASE sev = "none" -> 0
    [] sev = "mild" -> 1
    [] sev = "moderate" -> 2
    [] sev = "severe" -> 3

\* C32: the severity written for b blockers and incorrect/total is not
\* above the severity of any larger blocker count at the same error rate,
\* nor above the severity of any error rate at least as large at the same
\* blocker count.
C32_SeverityMonotonic ==
  \A i \in 1..Len(diagnostic_tests) :
    diagnostic_tests[i].status = "completed" =>
      LET b == Len(blockers)
          incorrect == IncorrectCount(responses)
          total == Len(responses)
          written == SeverityRank(diagnostic_tests[i].overall_severity)
      IN /\ \A b2 \in b..(MaxBlockers + 1) :
              written <= SeverityRank(Severity(b2, incorrect, total))
         /\ \A total2 \in 1..(MaxTotal + 1) :
              \A incorrect2 \in 0..total2 :
                incorrect2 * total >= incorrect * total2 =>
                  written <= SeverityRank(Severity(b, incorrect2, total2))

\* C32 witness: three blockers with no incorrect response written as
\* severe, so that a larger blocker count must not rate lower
C32_Witness ==
  /\ Len(blockers) = 3
  /\ IncorrectCount(responses) = 0
  /\ diagnostic_tests[1].status = "completed"
  /\ diagnostic_tests[1].overall_severity = "severe"

\* the response with every field but construct and isCorrect blanked
OnlyConstructAndCorrectness(r) ==
  [r EXCEPT !.questionNumber = 0, !.questionText = 0, !.userAnswer = <<>>,
            !.correctAnswer = <<>>, !.difficultyLevel = 0]

C34_ScoredHistoryNonEmpty ==
  \A c \in completions :
    /\ Len(c.resp) >= 1
    /\ c.pc \in {"fetchRoadmap", "insertRoadmap", "updateTest", "updateBlockers"} =>
         Len(c.resp) \in {MAIN_TEST_LENGTH, MAIN_TEST_LENGTH + CONFIRMATORY_LENGTH}

\* C34 witness: generateRoadmap is about to compute the severity of ten
\* responses none of which is incorrect
C34_Witness ==
  \E c \in completions :
    /\ c.pc = "updateTest"
    /\ Len(c.resp) = MAIN_TEST_LENGTH
    /\ IncorrectCount(c.resp) = 0

\* the teacher who created the student record with id `student_id`
CreatorOfStudent(student_id) ==
  LET i == CHOOSE i \in 1..Len(students) : students[i].id = student_id
  IN students[i].creator

\* the teacher who created the parent student of the test with id `test_id`
CreatorOfTest(test_id) ==
  LET i == CHOOSE i \in 1..Len(diagnostic_tests) : diagnostic_tests[i].id = test_id
  IN CreatorOfStudent(diagnostic_tests[i].student_id)

\* C35: under the policies a teacher sees, and has inserted or last
\* updated, a student, test, response, blocker or roadmap record only if
\* the teacher created the parent student record; a student's teacher_id is
\* always the teacher who created it.
C35_OwnerScopedAccess ==
  /\ \A i \in 1..Len(students) :
       /\ students[i].teacher_id = students[i].creator
       /\ students[i].writer = students[i].creator
  /\ \A i \in 1..Len(diagnostic_tests) :
       diagnostic_tests[i].writer = CreatorOfStudent(diagnostic_tests[i].student_id)
  /\ \A i \in 1..Len(test_responses) :
       test_responses[i].writer = CreatorOfTest(test_responses[i].test_id)
  /\ \A i \in 1..Len(blockers_detected) :
       blockers_detected[i].writer = CreatorOfTest(blockers_detected[i].test_id)
  /\ \A i \in 1..Len(remediation_roadmaps) :
       remediation_roadmaps[i].writer = CreatorOfTest(remediation_roadmaps[i].test_id)
  /\ \A uid \in Teachers :
       /\ \A i \in VisibleStudents(uid) :
            students[i].creator = uid
       /\ \A i \in VisibleTests(uid) :
            CreatorOfStudent(diagnostic_tests[i].student_id) = uid
       /\ \A i \in VisibleChildren(uid, test_responses) :
            CreatorOfTest(test_responses[i].test_id) = uid
       /\ \A i \in VisibleChildren(uid, blockers_detected) :
            CreatorOfTest(blockers_detected[i].test_id) = uid
       /\ \A i \in VisibleChildren(uid, remediation_roadmaps) :
            CreatorOfTest(remediation_roadmaps[i].test_id) = uid

\* C35 witness: both teachers have a student, and teacher 1 a test with a
\* response, a confirmed blocker and a roadmap, none of which teacher 2 sees
C35_Witness ==
  /\ \E i \in 1..Len(students) : students[i].creator = 2
  /\ \E i \in 1..Len(diagnostic_tests) :
       CreatorOfStudent(diagnostic_tests[i].student_id) = 1
  /\ Len(test_responses) = 1
  /\ Len(blockers_detected) = 1 /\ blockers_detected[1].is_confirmed
  /\ VisibleTests(2) = {}
  /\ VisibleChildren(2, test_responses) = {}
  /\ VisibleChildren(2, blockers_detected) = {}
  /\ VisibleChildren(1, blockers_detected) = {1}

\* every write of the session has reached the store: one enrollment, the
\* responses of the finished stages, the blockers, the roadmap and the
\* completed test
AllWritesStored ==
  /\ Len(students) = 1 /\ Len(diagnostic_tests) = 1
  /\ Len(test_responses) = HistoryLength(responses)
  /\ Len(blockers_detected) = Len(blockers)
  /\ Len(remediation_roadmaps) = 1
  /\ diagnostic_tests[1].status = "completed"

\* C36: a session whose calls have all succeeded is in stage roadmap with
\* exactly 10 accepted answers when the main test gave no blocker and
\* exactly 15 otherwise.
C36_CompletesAfterStageLengths ==
  (/\ route = "diagnostic" /\ stage = "roadmap"
   /\ enrolls = EmptyBag /\ completions = {}
   /\ Len(questions) = HistoryLength(responses)
   /\ AllWritesStored) =>
    Len(responses) = HistoryLength(responses)

\* The sessions in which no call fails or comes back short and no handler
\* is entered while an earlier call is pending, under weak fairness of the
\* steps: React runs every resolved continuation, and the student keeps
\* submitting.
InitFailureFree ==
  /\ stage = "age" /\ age = Null /\ studentId = NoId /\ testId = NoId
  /\ currentQuestion = 0 /\ questions = <<>> /\ responses = <<>>
  /\ loading = FALSE /\ blockers = <<>> /\ roadmap = <<>>
  /\ route = "diagnostic"
  /\ students = <<>> /\ diagnostic_tests = <<>> /\ test_responses = <<>>
  /\ blockers_detected = <<>> /\ remediation_roadmaps = <<>>
  /\ enrolls = EmptyBag /\ completions = {}
  /\ adverse = MaxAdverse

SpecFailureFree == InitFailureFree /\ [][Next]_vars /\ WF_vars(Next)

\* lemma: a failure-free session that passed age and name validation
\* reaches stage roadmap
FailureFreeReachesRoadmap == (enrolls # EmptyBag) ~> (stage = "roadmap")

\* lemma: and it does so with exactly the stage lengths answered
FailureFreeStageLengths ==
  stage = "roadmap" =>
    /\ Len(responses) = HistoryLength(responses)
    /\ Len(responses) = IF blockers = <<>> THEN MAIN_TEST_LENGTH
                        ELSE MAIN_TEST_LENGTH + CONFIRMATORY_LENGTH

\* C37: in main-test, confirmatory and roadmap, studentId and testId are
\* both set, and every pending stage completion carries a test id, so no
\* store write guarded by the test id is skipped.
C37_IdsSetFromMainTest ==
  stage \in {"main-test", "confirmatory", "roadmap"} =>
    /\ studentId # NoId /\ testId # NoId
    /\ \A c \in completions : c.tid # NoId

C37_Witness ==
  /\ stage = "roadmap" /\ studentId # NoId /\ testId # NoId
  /\ blockers # <<>>
  /\ Len(test_responses) = MAIN_TEST_LENGTH + CONFIRMATORY_LENGTH
  /\ Len(blockers_detected) > 0
  /\ \E i \in 1..Len(blockers_detected) : blockers_detected[i].is_confirmed
  /\ Len(remediation_roadmaps) > 0
  /\ \E i \in 1..Len(diagnostic_tests) : diagnostic_tests[i].status = "completed"

\* no call of handleStudentInfoSubmit, detectBlockers or generateRoadmap is
\* at an await
NoCallPending == enrolls = EmptyBag /\ completions = {}

\* C38: once every call that set the loading flag has ended, by success,
\* HTTP 429, a thrown error or a missing auth session, the flag is false
\* again, so the buttons of the mounted page are enabled.
C38_LoadingResetOnEveryExit == (Mounted /\ NoCallPending) => ~loading

\* the three calls have ended by a failure path: enrollment, the
\* confirmatory fetch or the roadmap request
C38_Witness ==
  /\ Mounted /\ NoCallPending /\ ~loading /\ adverse > 0
  /\ \/ stage = "student-info" /\ studentId # NoId
     \/ stage = "main-test" /\ Len(responses) = MAIN_TEST_LENGTH

\* lemma: in the failure-free sessions a set flag is always reset
FailureFreeLoadingReset == loading ~> ~loading

(* ------------------------------------------------------------------ *)
(* The generate-roadmap edge function and the client's reaction       *)
(* ------------------------------------------------------------------ *)

\* length of the text the model writes as message content
MaxContentLen == 5

\* the text in tokens: braces, a well-formed "key": value member, a comma,
\* white space and any other text
ContentChars == {"{", "}", "m", ",", " ", "t"}

Contents == UNION {[1..n -> ContentChars] : n \in 0..MaxContentLen}

\* response.ok
HttpOk(status) == status \in 200..299

\* content.match(/\{[\s\S]*\}/): from the first opening brace to the last
\* closing brace behind it; <<>> is null, <<text>> a match
MatchBraces(content) ==
  LET opens == {i \in 1..Len(content) : content[i] = "{"} IN
  IF opens = {} THEN <<>>
  ELSE LET first == CHOOSE i \in opens : \A k \in opens : i <= k
           closes == {j \in first..Len(content) : content[j] = "}"}
       IN IF closes = {} THEN <<>>
          ELSE LET last == CHOOSE j \in closes : \A k \in closes : k <= j
               IN <<SubSeq(content, first, last)>>

\* JSON.parse on a text that starts with a brace: white space between
\* tokens is skipped, members are separated by commas, a repeated key
\* keeps one member; <<>> is a SyntaxError, <<object>> the value
JsonParse(text) ==
  LET q == SelectSeq(text, LAMBDA ch : ch # " ") IN
  IF Len(q) < 2 \/ q[1] # "{" \/ q[Len(q)] # "}" THEN <<>>
  ELSE LET inner == SubSeq(q, 2, Len(q) - 1) IN
       IF inner = <<>> THEN <<[members |-> {}]>>
       ELSE IF /\ Len(inner) % 2 = 1
               /\ \A i \in 1..Len(inner) :
                    IF i % 2 = 1 THEN inner[i] \in {"m", "e"} ELSE inner[i] = ","
            THEN <<[members |-> {inner[i] : i \in 1..Len(inner)} \ {","}]>>
            ELSE <<>>

\* JSON.stringify of an object
JsonStringify(object) ==
  IF object.members = {} THEN <<"{", "}">>
  ELSE IF object.members = {"m"} THEN <<"{", "m", "}">>
  ELSE IF object.members = {"e"} THEN <<"{", "e", "}">>
  ELSE <<"{", "e", ",", "m", "}">>

\* the catch block: status 500 with {error: message}
ErrorResponse(status) ==
  [status |-> status, body |-> JsonStringify([members |-> {"e"}])]

\* serve that answers an upstream 402 from its catch block
serveGenerateRoadmapThrowsOn402(req) ==
  IF req.method = "OPTIONS" THEN [status |-> 200, body |-> <<>>]
  ELSE IF ~req.key THEN ErrorResponse(500)
  ELSE IF ~HttpOk(req.upstream)
       THEN IF req.upstream = 429 THEN ErrorResponse(429) ELSE ErrorResponse(500)
  ELSE IF ~req.envelope THEN ErrorResponse(500)
  ELSE LET jsonMatch == MatchBraces(req.content) IN
       IF jsonMatch = <<>> THEN ErrorResponse(500)
       ELSE LET roadmapParsed == JsonParse(jsonMatch[1]) IN
            IF roadmapParsed = <<>> THEN ErrorResponse(500)
            ELSE [status |-> 200, body |-> JsonStringify(roadmapParsed[1])]

\* serve(async (req) => ...) of generate-roadmap.  req carries, besides the
\* method, what the function meets while it runs: whether LOVABLE_API_KEY
\* is set, the status of the gateway's reply, whether the reply has
\* choices[0].message.content as a string, and that content
serveGenerateRoadmap(req) ==
  IF req.method = "OPTIONS" THEN [status |-> 200, body |-> <<>>]
  ELSE IF ~req.key THEN ErrorResponse(500)
  ELSE IF ~HttpOk(req.upstream)
       THEN IF req.upstream = 429 THEN ErrorResponse(429)
            ELSE IF req.upstream = 402 THEN ErrorResponse(402)
            ELSE ErrorResponse(500)
  ELSE IF ~req.envelope THEN ErrorResponse(500)
  ELSE LET jsonMatch == MatchBraces(req.content) IN
       IF jsonMatch = <<>> THEN ErrorResponse(500)
       ELSE LET roadmapParsed == JsonParse(jsonMatch[1]) IN
            IF roadmapParsed = <<>> THEN ErrorResponse(500)
            ELSE [status |-> 200, body |-> JsonStringify(roadmapParsed[1])]

\* what a request may meet
RoadmapRequests ==
  {[method |-> "POST", key |-> TRUE, upstream |-> 200, envelope |-> TRUE,
    content |-> content] : content \in Contents}
  \cup
  {[method |-> method, key |-> key, upstream |-> upstream,
    envelope |-> envelope, content |-> <<>>] :
     method \in {"OPTIONS", "POST"}, key \in BOOLEAN,
     upstream \in {200, 201, 402, 429, 500, 503}, envelope \in BOOLEAN}

\* a main test without blocker is complete, its responses are saved and
\* generateRoadmap has sent its request, which meets any of RoadmapRequests
InitRoadmapFunction ==
  \E req \in RoadmapRequests :
    LET hist == [i \in 1..MAIN_TEST_LENGTH |->
                  MakeResponse(MainBatch[i], CorrectTyped, i - 1)]
    IN /\ stage = "main-test"
       /\ age = Num(MinAge)
       /\ studentId = 1
       /\ testId = 1
       /\ currentQuestion = MAIN_TEST_LENGTH - 1
       /\ questions = MainBatch
       /\ responses = hist
       /\ loading = TRUE
       /\ blockers = <<>>
       /\ roadmap = <<>>
       /\ route = "diagnostic"
       /\ students = <<[id |-> 1, teacher_id |-> TeacherId,
                        name |-> <<"A", "b">>, age |-> MinAge]>>
       /\ diagnostic_tests = <<[id |-> 1, student_id |-> 1,
                                status |-> "in_progress", age_at_test |-> MinAge,
                                overall_severity |-> "none"]>>
       /\ test_responses = [i \in 1..MAIN_TEST_LENGTH |-> ResponseRow(1, hist[i])]
       /\ blockers_detected = <<>>
       /\ remediation_roadmaps = <<>>
       /\ enrolls = EmptyBag
       /\ completions = {[pc |-> "fetchRoadmap", tid |-> 1, age |-> Num(MinAge),
                          qs |-> MainBatch, blk |-> <<>>, resp |-> hist,
                          rm |-> <<>>, req |-> req, response |-> <<>>,
                          toast |-> <<>>]}
       /\ adverse = 0

\* the edge function answers the request
ServeRoadmap(c) ==
  /\ c \in completions /\ c.pc = "fetchRoadmap" /\ c.response = <<>>
  /\ completions' = (completions \ {c}) \cup
       {[c EXCEPT !.response = <<serveGenerateRoadmap(c.req)>>]}
  /\ UNCHANGED <<ui, db, enrolls, adverse>>

\* generateRoadmap after await fetch(...): the 429 return, the throw on
\* !response.ok with catch and finally, or response.json() and setRoadmap.
\* The answer to the browser's OPTIONS preflight is not handed to the call.
ReceiveRoadmap(c) ==
  /\ c \in completions /\ c.pc = "fetchRoadmap" /\ c.response # <<>>
  /\ c.req.method = "POST"
  /\ LET response == c.response[1] IN
     IF response.status = 429
     THEN /\ loading' = SetState(loading, FALSE)
          /\ completions' = (completions \ {c}) \cup
               {[c EXCEPT !.pc = "returned", !.toast = <<"Rate Limit Exceeded">>]}
          /\ UNCHANGED roadmap
     ELSE IF ~HttpOk(response.status) \/ JsonParse(response.body) = <<>>
     THEN /\ loading' = SetState(loading, FALSE)
          /\ completions' = (completions \ {c}) \cup
               {[c EXCEPT !.pc = "returned", !.toast = <<"Error">>]}
          /\ UNCHANGED roadmap
     ELSE LET roadmapData == JsonParse(response.body)[1] IN
          /\ roadmap' = SetState(roadmap, <<roadmapData>>)
          /\ completions' = (completions \ {c}) \cup
               {[c EXCEPT !.pc = "insertRoadmap", !.rm = <<roadmapData>>]}
          /\ UNCHANGED loading
  /\ UNCHANGED <<stage, age, studentId, testId, currentQuestion, questions,
                 responses, blockers, route>>
  /\ UNCHANGED <<db, enrolls, adverse>>

NextRoadmapFunction ==
  \/ \E c \in completions : ServeRoadmap(c)
  \/ \E c \in completions : ReceiveRoadmap(c)
  \/ \E c \in completions : InsertRoadmap(c)
  \/ \E c \in completions : UpdateTest(c)

SpecRoadmapFunction == InitRoadmapFunction /\ [][NextRoadmapFunction]_vars

\* the JSON objects that can be cut out of a text
ExtractableObjects(content) ==
  {JsonParse(SubSeq(content, i, j))[1] :
     <<i, j>> \in {p \in (1..Len(content)) \X (1..Len(content)) :
                     p[1] <= p[2] /\ JsonParse(SubSeq(content, p[1], p[2])) # <<>>}}

\* C39: the edge function answers an upstream 429 with 429, an upstream
\* 402 with 402, and any other upstream failure, a missing API key or a
\* reply without an extractable JSON object with 500; a success status
\* carries an object parsed from the reply.  The client sets the roadmap
\* and goes on towards stage roadmap only on a success status, and shows
\* the rate-limit toast on 429 and on no other failure.
C39_StatusMapping ==
  /\ \A c \in completions :
       (c.response # <<>> /\ c.req.method = "POST") =>
         LET req == c.req
             r == c.response[1]
         IN /\ (req.key /\ req.upstream = 429) => r.status = 429
            /\ (req.key /\ req.upstream = 402) => r.status = 402
            /\ (\/ ~req.key
                \/ ~HttpOk(req.upstream) /\ req.upstream \notin {429, 402}
                \/ /\ HttpOk(req.upstream)
                   /\ ~req.envelope \/ ExtractableObjects(req.content) = {})
                 => r.status = 500
            /\ HttpOk(r.status) =>
                 /\ req.key /\ HttpOk(req.upstream) /\ req.envelope
                 /\ JsonParse(r.body) # <<>>
                 /\ JsonParse(r.body)[1] \in ExtractableObjects(req.content)
            /\ c.pc \in {"insertRoadmap", "updateTest"} =>
                 /\ HttpOk(r.status)
                 /\ roadmap = <<JsonParse(r.body)[1]>>
            /\ c.pc = "returned" =>
                 /\ ~HttpOk(r.status)
                 /\ stage # "roadmap" /\ roadmap = <<>> /\ ~loading
                 /\ (c.toast = <<"Rate Limit Exceeded">>) <=> (r.status = 429)
                 /\ (c.toast = <<"Error">>) <=> (r.status # 429)
  /\ stage = "roadmap" => roadmap # <<>>
  /\ roadmap # <<>> =>
       \A c \in completions : c.response # <<>> /\ HttpOk(c.response[1].status)

\* the object is cut out of a reply with text around it and handed to the
\* client, which has set the roadmap
C39_Witness ==
  \E c \in completions :
    /\ c.pc = "insertRoadmap"
    /\ c.req.content = <<"t", "{", "m", "}", "t">>
    /\ c.response[1].status = 200
    /\ roadmap = <<[members |-> {"m"}]>>

====
